---- MODULE Spec2Model ----
(***************************************************************************)
(* Model of the zoom/layout calculation of the story editor:               *)
(*   assets/src/edit-story/app/layout/useZoomSetting.js                    *)
(* and of the open/close handlers of the design-system drop-down:          *)
(*   assets/src/design-system/components/dropDown/index.js                 *)
(* The two components do not interact; each has its own specification      *)
(* (Spec, DropDownSpec) under which the other component stays as mounted.  *)
(*                                                                         *)
(* The hook keeps two pieces of React state (zoomSetting, workspaceSize)   *)
(* and a memoized derived object `state`.  JavaScript numbers are modelled *)
(* as exact rationals extended with NaN, +/-Infinity, null and undefined;  *)
(* binary64 rounding and negative zero are not modelled.                   *)
(***************************************************************************)
EXTENDS Integers, FiniteSets, Sequences, TLC

(***************************************************************************)
(* Bounds of the model.                                                    *)
(***************************************************************************)
\* workspace widths and heights 0..MaxDim are enumerated pixel by pixel
MaxDim == 12
\* PAGE_NAV_WIDTH ranges over 0..MaxNav
MaxNav == 1

\* larger workspace dimensions, taken from the documented scenarios
ScenarioWidths == {400, 1200, 2000}
ScenarioHeights == {900, 1000, 2000}

(***************************************************************************)
(* JavaScript values.  Every value has the same record shape so that       *)
(* equality is structural: t is the kind, n/d a reduced fraction for       *)
(* t = "num", n the sign for t = "inf".                                    *)
(***************************************************************************)
RECURSIVE GCD(_, _)
GCD(a, b) == IF b = 0 THEN a ELSE GCD(b, a % b)

Abs(i) == IF i < 0 THEN 0 - i ELSE i

Sign(i) == IF i < 0 THEN 0 - 1 ELSE 1

Null == [t |-> "null", n |-> 0, d |-> 1]

Undefined == [t |-> "undefined", n |-> 0, d |-> 1]

NaN == [t |-> "nan", n |-> 0, d |-> 1]

Inf(s) == [t |-> "inf", n |-> s, d |-> 1]

\* the finite number n/d (d # 0), as a reduced fraction with positive denominator
Rat(n, d) ==
  LET g == GCD(Abs(n), Abs(d))
  IN [t |-> "num", n |-> (Sign(d) * n) \div g, d |-> Abs(d) \div g]

Num(i) == [t |-> "num", n |-> i, d |-> 1]

\* ToNumber coercion applied by the arithmetic and relational operators
ToNumber(v) ==
  CASE v.t = "null" -> Num(0)
    [] v.t = "undefined" -> NaN
    [] OTHER -> v

\* a / b
Div(a, b) ==
  LET x == ToNumber(a)
      y == ToNumber(b)
  IN IF x.t = "nan" \/ y.t = "nan" THEN NaN
     ELSE IF x.t = "inf"
          THEN IF y.t = "inf" THEN NaN ELSE Inf(x.n * Sign(y.n))
     ELSE IF y.t = "inf" THEN Num(0)
     ELSE IF y.n = 0
          THEN IF x.n = 0 THEN NaN ELSE Inf(Sign(x.n))
     ELSE Rat(x.n * y.d, x.d * y.n)

\* a * b
Mul(a, b) ==
  LET x == ToNumber(a)
      y == ToNumber(b)
  IN IF x.t = "nan" \/ y.t = "nan" THEN NaN
     ELSE IF x.t = "inf" \/ y.t = "inf"
          THEN IF x.n = 0 \/ y.n = 0 THEN NaN ELSE Inf(Sign(x.n) * Sign(y.n))
     ELSE Rat(x.n * y.n, x.d * y.d)

\* a - b
Sub(a, b) ==
  LET x == ToNumber(a)
      y == ToNumber(b)
  IN IF x.t = "nan" \/ y.t = "nan" THEN NaN
     ELSE IF x.t = "inf"
          THEN IF y.t = "inf" /\ y.n = x.n THEN NaN ELSE x
     ELSE IF y.t = "inf" THEN Inf(0 - y.n)
     ELSE Rat(x.n * y.d - y.n * x.d, x.d * y.d)

\* Math.floor(a)
Floor(a) ==
  LET x == ToNumber(a)
  IN IF x.t = "num" THEN Num(x.n \div x.d) ELSE x

\* a > b (false whenever an operand is NaN)
Gt(a, b) ==
  LET x == ToNumber(a)
      y == ToNumber(b)
  IN IF x.t = "nan" \/ y.t = "nan" THEN FALSE
     ELSE IF x.t = "inf" THEN x.n = 1 /\ ~(y.t = "inf" /\ y.n = 1)
     ELSE IF y.t = "inf" THEN y.n = 0 - 1
     ELSE x.n * y.d > y.n * x.d

\* a < b
Lt(a, b) == Gt(b, a)

(***************************************************************************)
(* Design constants imported from '../../constants'.                       *)
(***************************************************************************)
PAGE_WIDTH == 412

PAGE_RATIO == Rat(3, 4)

FULLBLEED_RATIO == Rat(4, 5)

\* the five modes the switch recognizes, and one it does not
RecognizedZoom == {"FILL", "FIT", "SINGLE", "DOUBLE", "TRIPLE"}

ZOOM_SETTING == RecognizedZoom \cup {"OTHER"}

NavWidths == 0..MaxNav

(***************************************************************************)
(* Inputs: workspace sizes handed to setWorkspaceSize.                     *)
(***************************************************************************)
Widths == {Null} \cup {Num(i) : i \in (0..MaxDim) \cup ScenarioWidths}

Heights == {Null} \cup {Num(i) : i \in (0..MaxDim) \cup ScenarioHeights}

WorkspaceSizes == [width : Widths, height : Heights]

VARIABLES
  zoomSetting,     \* useState(ZOOM_SETTING.FIT)
  workspaceSize,   \* useState({width: null, height: null})
  state,           \* the memoized object returned as `state`
  workspaceRatio,  \* local of the last run of the memo callback
  maxPageWidth,    \* local of the last run of the memo callback
  memoDeps,        \* dependency values of the last run of the memo callback
  PAGE_NAV_WIDTH,  \* design constant, fixed for a whole behaviour
  isOpen,          \* DropDown: isOpen.value of useDropDown
  focus,           \* DropDown: the element that holds the document focus
  disabled,        \* DropDown prop
  isKeepMenuOpenOnSelection,  \* DropDown prop
  onMenuItemClick, \* DropDown prop: "function" when provided, else "undefined"
  lastCall,        \* DropDown: the handler that ran last, with its arguments
  effects          \* DropDown: the calls that handler made, in order

zoomVars == <<zoomSetting, workspaceSize, state, workspaceRatio, maxPageWidth,
              memoDeps, PAGE_NAV_WIDTH>>

dropDownVars == <<isOpen, focus, disabled, isKeepMenuOpenOnSelection,
                  onMenuItemClick, lastCall, effects>>

vars == <<zoomVars, dropDownVars>>

(***************************************************************************)
(* The memo callback, line by line.                                        *)
(***************************************************************************)
WorkspaceRatioInverted(ws) == Div(ws.height, ws.width)

WorkspaceRatioGuarded(ws) ==
  Div(ws.width, IF ToNumber(ws.height) = Num(0) THEN Num(1) ELSE ws.height)

\* const workspaceRatio = workspaceSize.width / workspaceSize.height
WorkspaceRatio(ws) == Div(ws.width, ws.height)

FillMaxPageWidthSwapped(ws, ratio) ==
  IF Gt(ratio, FULLBLEED_RATIO)
  THEN Mul(ws.height, FULLBLEED_RATIO)
  ELSE ws.width

\* case ZOOM_SETTING.FILL
FillMaxPageWidth(ws, ratio) ==
  IF Gt(ratio, FULLBLEED_RATIO)
  THEN ws.width
  ELSE Mul(ws.height, FULLBLEED_RATIO)

FitMaxPageWidthSwapped(ws, ratio) ==
  IF Gt(ratio, FULLBLEED_RATIO)
  THEN ws.width
  ELSE Mul(ws.height, FULLBLEED_RATIO)

\* case ZOOM_SETTING.FIT
FitMaxPageWidth(ws, ratio) ==
  IF Gt(ratio, FULLBLEED_RATIO)
  THEN Mul(ws.height, FULLBLEED_RATIO)
  ELSE ws.width

\* case ZOOM_SETTING.SINGLE
SingleMaxPageWidth == Num(PAGE_WIDTH)

DoubleMaxPageWidthUnscaled == Num(PAGE_WIDTH)

\* case ZOOM_SETTING.DOUBLE
DoubleMaxPageWidth == Mul(Num(2), Num(PAGE_WIDTH))

\* case ZOOM_SETTING.TRIPLE
TripleMaxPageWidth == Mul(Num(3), Num(PAGE_WIDTH))

MaxPageWidthDefaultSingle(ws, zoom, ratio) ==
  CASE zoom = "FILL" -> FillMaxPageWidth(ws, ratio)
    [] zoom = "FIT" -> FitMaxPageWidth(ws, ratio)
    [] zoom = "DOUBLE" -> DoubleMaxPageWidth
    [] zoom = "TRIPLE" -> TripleMaxPageWidth
    [] OTHER -> SingleMaxPageWidth

\* the switch; the default case leaves maxPageWidth undefined
MaxPageWidth(ws, zoom, ratio) ==
  CASE zoom = "FILL" -> FillMaxPageWidth(ws, ratio)
    [] zoom = "FIT" -> FitMaxPageWidth(ws, ratio)
    [] zoom = "SINGLE" -> SingleMaxPageWidth
    [] zoom = "DOUBLE" -> DoubleMaxPageWidth
    [] zoom = "TRIPLE" -> TripleMaxPageWidth
    [] OTHER -> Undefined

SnapPageWidthNoGrid(max) == Floor(max)

SnapPageWidthNearest(max) ==
  Mul(Num(12), Floor(Sub(Div(max, Num(12)), Rat(0 - 1, 2))))

\* const pageWidth = 12 * Math.floor(maxPageWidth / 12)
SnapPageWidth(max) == Mul(Num(12), Floor(Div(max, Num(12))))

PageHeightFullbleed(pageWidth) == Div(pageWidth, FULLBLEED_RATIO)

\* const pageHeight = pageWidth / PAGE_RATIO
PageHeight(pageWidth) == Div(pageWidth, PAGE_RATIO)

\* const fullbleedHeight = pageWidth / FULLBLEED_RATIO
FullbleedHeight(pageWidth) == Div(pageWidth, FULLBLEED_RATIO)

HasHorizontalOverflowReversed(pageWidth, ws) == Lt(pageWidth, ws.width)

\* const hasHorizontalOverflow = pageWidth > workspaceSize.width
HasHorizontalOverflow(pageWidth, ws) == Gt(pageWidth, ws.width)

\* const hasVerticalOverflow = fullbleedHeight > workspaceSize.height
HasVerticalOverflow(fullbleedHeight, ws) == Gt(fullbleedHeight, ws.height)

HasPageNavigationOneSide(pageWidth, ws, nav) ==
  Lt(pageWidth, Sub(ws.width, Num(nav)))

\* const hasPageNavigation = pageWidth < workspaceSize.width - 2 * PAGE_NAV_WIDTH
HasPageNavigation(pageWidth, ws, nav) ==
  Lt(pageWidth, Sub(ws.width, Mul(Num(2), Num(nav))))

\* the callback passed to useMemo: its locals and the object it returns
Calculate(ws, zoom, nav) ==
  LET ratio == WorkspaceRatio(ws)
      max == MaxPageWidth(ws, zoom, ratio)
      pageWidth == SnapPageWidth(max)
      fullbleedHeight == FullbleedHeight(pageWidth)
  IN [workspaceRatio |-> ratio,
      maxPageWidth |-> max,
      state |-> [zoomSetting |-> zoom,
                 pageWidth |-> pageWidth,
                 pageHeight |-> PageHeight(pageWidth),
                 hasHorizontalOverflow |-> HasHorizontalOverflow(pageWidth, ws),
                 hasVerticalOverflow |-> HasVerticalOverflow(fullbleedHeight, ws),
                 hasPageNavigation |-> HasPageNavigation(pageWidth, ws, nav),
                 workspaceWidth |-> ws.width,
                 workspaceHeight |-> ws.height]]

MemoDepsSizeOnly(ws, zoom) == <<ws>>

\* the dependency list of useMemo: [workspaceSize, zoomSetting]
MemoDeps(ws, zoom) == <<ws, zoom>>

\* a render after the two state slots took the values ws and zoom: useMemo
\* runs the callback again only when a dependency changed
Render(ws, zoom) ==
  IF MemoDeps(ws, zoom) # memoDeps
  THEN \E r \in {Calculate(ws, zoom, PAGE_NAV_WIDTH)} :
         /\ state' = r.state
         /\ workspaceRatio' = r.workspaceRatio
         /\ maxPageWidth' = r.maxPageWidth
         /\ memoDeps' = MemoDeps(ws, zoom)
  ELSE UNCHANGED <<state, workspaceRatio, maxPageWidth, memoDeps>>

InitialWorkspaceSize == [width |-> Null, height |-> Null]

(***************************************************************************)
(* The DropDown component: what its three handlers do.                     *)
(***************************************************************************)
\* events that reach the handlers, and the options of the menu
DropDownEvents == {"click", "keydown"}

MenuItems == {"item1", "item2"}

NoCall == [handler |-> "none", event |-> "-", item |-> "-"]

Effect(op, event, item) == [op |-> op, event |-> event, item |-> item]

\* handleSelectClick: event.preventDefault(); isOpen.set((prev) => !prev)
HandleSelectClickEffects(event) ==
  <<Effect("event.preventDefault", event, "-"),
    Effect("isOpen.set(!prev)", "-", "-")>>

\* handleDismissMenu: isOpen.set(false); selectRef.current.focus()
HandleDismissMenuEffects ==
  <<Effect("isOpen.set(false)", "-", "-"),
    Effect("selectRef.current.focus", "-", "-")>>

HandleMenuItemClickEffectsAlwaysDismiss(event, menuItem, callback, keepOpen) ==
  (IF callback = "function"
   THEN <<Effect("onMenuItemClick", event, menuItem)>>
   ELSE <<>>)
  \o HandleDismissMenuEffects

\* handleMenuItemClick: onMenuItemClick && onMenuItemClick(event, menuItem);
\* if (!isKeepMenuOpenOnSelection) handleDismissMenu()
HandleMenuItemClickEffects(event, menuItem, callback, keepOpen) ==
  (IF callback = "function"
   THEN <<Effect("onMenuItemClick", event, menuItem)>>
   ELSE <<>>)
  \o (IF ~keepOpen THEN HandleDismissMenuEffects ELSE <<>>)

\* what one call does to isOpen and to the focus
ApplyEffect(e, st) ==
  CASE e.op = "isOpen.set(!prev)" -> [st EXCEPT !.isOpen = ~@]
    [] e.op = "isOpen.set(false)" -> [st EXCEPT !.isOpen = FALSE]
    [] e.op = "selectRef.current.focus" -> [st EXCEPT !.focus = "select"]
    [] OTHER -> st

RECURSIVE RunEffects(_, _)
RunEffects(effs, st) ==
  IF effs = <<>> THEN st
  ELSE RunEffects(Tail(effs), ApplyEffect(Head(effs), st))

\* the DropDown after its first render, with the given props; useDropDown is
\* taken to start closed
DropDownMounted(d, keepOpen, callback) ==
  /\ isOpen = FALSE
  /\ focus = "elsewhere"
  /\ disabled = d
  /\ isKeepMenuOpenOnSelection = keepOpen
  /\ onMenuItemClick = callback
  /\ lastCall = NoCall
  /\ effects = <<>>

\* the first render of the hook
Init ==
  /\ PAGE_NAV_WIDTH \in NavWidths
  /\ zoomSetting = "FIT"
  /\ workspaceSize = InitialWorkspaceSize
  /\ LET r == Calculate(InitialWorkspaceSize, "FIT", PAGE_NAV_WIDTH)
     IN /\ state = r.state
        /\ workspaceRatio = r.workspaceRatio
        /\ maxPageWidth = r.maxPageWidth
  /\ memoDeps = MemoDeps(InitialWorkspaceSize, "FIT")
  /\ DropDownMounted(FALSE, FALSE, "undefined")

\* actions.setZoomSetting(zoom), followed by the render it causes
setZoomSetting ==
  \E zoom \in ZOOM_SETTING :
    /\ zoomSetting' = zoom
    /\ Render(workspaceSize, zoom)
    /\ UNCHANGED <<workspaceSize, PAGE_NAV_WIDTH>>
    /\ UNCHANGED dropDownVars

\* actions.setWorkspaceSize(ws), followed by the render it causes
setWorkspaceSize ==
  \E ws \in WorkspaceSizes :
    /\ workspaceSize' = ws
    /\ Render(ws, zoomSetting)
    /\ UNCHANGED <<zoomSetting, PAGE_NAV_WIDTH>>
    /\ UNCHANGED dropDownVars

Next == setZoomSetting \/ setWorkspaceSize

Spec == Init /\ [][Next]_vars

(***************************************************************************)
(* The DropDown specification.                                             *)
(***************************************************************************)
\* the layout hook as first rendered, untouched by the DropDown
LayoutMounted ==
  /\ PAGE_NAV_WIDTH = 0
  /\ zoomSetting = "FIT"
  /\ workspaceSize = InitialWorkspaceSize
  /\ LET r == Calculate(InitialWorkspaceSize, "FIT", 0)
     IN /\ state = r.state
        /\ workspaceRatio = r.workspaceRatio
        /\ maxPageWidth = r.maxPageWidth
  /\ memoDeps = MemoDeps(InitialWorkspaceSize, "FIT")

DropDownInit ==
  /\ LayoutMounted
  /\ \E d \in BOOLEAN, keepOpen \in BOOLEAN, callback \in {"function", "undefined"} :
       DropDownMounted(d, keepOpen, callback)

\* one handler call: record it and apply what it did
RunHandler(call, effs) ==
  /\ lastCall' = call
  /\ effects' = effs
  /\ \E r \in {RunEffects(effs, [isOpen |-> isOpen, focus |-> focus])} :
       /\ isOpen' = r.isOpen
       /\ focus' = r.focus
  /\ UNCHANGED <<disabled, isKeepMenuOpenOnSelection, onMenuItemClick>>
  /\ UNCHANGED zoomVars

\* the select button is clicked (the button is disabled with the DropDown)
handleSelectClick ==
  /\ ~disabled
  /\ \E event \in DropDownEvents :
       RunHandler([handler |-> "handleSelectClick", event |-> event, item |-> "-"],
                  HandleSelectClickEffects(event))

\* the Menu asks to be dismissed (the Menu is rendered unless disabled)
handleDismissMenu ==
  /\ ~disabled
  /\ RunHandler([handler |-> "handleDismissMenu", event |-> "-", item |-> "-"],
                HandleDismissMenuEffects)

\* an option of the Menu is clicked or chosen with Enter
handleMenuItemClick ==
  /\ ~disabled
  /\ \E event \in DropDownEvents, menuItem \in MenuItems :
       RunHandler([handler |-> "handleMenuItemClick", event |-> event, item |-> menuItem],
                  HandleMenuItemClickEffects(event, menuItem, onMenuItemClick,
                                             isKeepMenuOpenOnSelection))

\* the user moves the focus, outside of any handler
FocusMoves ==
  /\ \E target \in {"select", "menu", "elsewhere"} : focus' = target
  /\ lastCall' = NoCall
  /\ effects' = <<>>
  /\ UNCHANGED <<isOpen, disabled, isKeepMenuOpenOnSelection, onMenuItemClick>>
  /\ UNCHANGED zoomVars

DropDownNext ==
  handleSelectClick \/ handleDismissMenu \/ handleMenuItemClick \/ FocusMoves

DropDownSpec == DropDownInit /\ [][DropDownNext]_vars

(***************************************************************************)
(* Properties.  W and H read the workspace size as the integers the        *)
(* relational operators see (null counts as 0).                            *)
(***************************************************************************)
W == IF workspaceSize.width.t = "num" THEN workspaceSize.width.n ELSE 0

H == IF workspaceSize.height.t = "num" THEN workspaceSize.height.n ELSE 0

Measured == workspaceSize.width.t = "num" /\ workspaceSize.height.t = "num"

PositiveSize == Measured /\ W > 0 /\ H > 0

Unsized == workspaceSize.width \in {Null, Num(0)} /\ workspaceSize.height \in {Null, Num(0)}

IsInteger(v) == v.t = "num" /\ v.d = 1

\* C1: in mode FIT with a positive workspace size the page fits inside the
\* workspace: pageWidth <= width, pageWidth / FULLBLEED_RATIO <= height, and
\* neither overflow flag is set.
FitFitsInside ==
  (zoomSetting = "FIT" /\ PositiveSize) =>
    /\ IsInteger(state.pageWidth)
    /\ state.pageWidth.n <= W
    /\ state.pageWidth.n * FULLBLEED_RATIO.d <= H * FULLBLEED_RATIO.n
    /\ ~state.hasHorizontalOverflow
    /\ ~state.hasVerticalOverflow

FitFitsInsideWitness ==
  /\ zoomSetting = "FIT" /\ PositiveSize
  /\ state.pageWidth.n > 0
  /\ state.pageWidth.n < W
  /\ state.pageWidth.n * FULLBLEED_RATIO.d < H * FULLBLEED_RATIO.n

\* C2: for every workspace size, the unmeasured one included, and each of the
\* modes FILL, FIT, SINGLE, DOUBLE, TRIPLE, pageWidth is a non-negative
\* multiple of 12.
PageWidthOnGrid ==
  zoomSetting \in RecognizedZoom =>
    /\ IsInteger(state.pageWidth)
    /\ state.pageWidth.n >= 0
    /\ state.pageWidth.n % 12 = 0

PageWidthOnGridWitness ==
  /\ zoomSetting = "FILL"
  /\ state.pageWidth.n > 0
  /\ state.pageWidth # maxPageWidth

\* C3: in modes SINGLE, DOUBLE, TRIPLE pageWidth is 1, 2, 3 times PAGE_WIDTH
\* rounded down to a multiple of 12, whatever the workspace size; DOUBLE gives
\* 816 for PAGE_WIDTH = 412.
FixedZoomPageWidth ==
  /\ zoomSetting = "SINGLE" => state.pageWidth = Num(12 * (PAGE_WIDTH \div 12))
  /\ zoomSetting = "DOUBLE" =>
       state.pageWidth = Num(12 * ((2 * PAGE_WIDTH) \div 12)) /\ state.pageWidth = Num(816)
  /\ zoomSetting = "TRIPLE" => state.pageWidth = Num(12 * ((3 * PAGE_WIDTH) \div 12))

FixedZoomPageWidthWitness ==
  /\ zoomSetting = "DOUBLE"
  /\ workspaceSize = [width |-> Num(2000), height |-> Num(2000)]
  /\ state.pageWidth = Num(816)

\* C4: after any sequence of setZoomSetting and setWorkspaceSize the exposed
\* state is the calculation applied to the current workspace size and zoom
\* setting, and echoes both.
StateIsLatestCalculation ==
  /\ state = Calculate(workspaceSize, zoomSetting, PAGE_NAV_WIDTH).state
  /\ state.zoomSetting = zoomSetting
  /\ state.workspaceWidth = workspaceSize.width
  /\ state.workspaceHeight = workspaceSize.height

StateIsLatestCalculationWitness ==
  /\ zoomSetting = "TRIPLE"
  /\ workspaceSize = [width |-> Num(400), height |-> Num(1000)]
  /\ state.pageWidth = Num(1236)
  /\ state.hasHorizontalOverflow

\* C5 as stated: in mode FILL with a positive workspace size the page covers
\* the workspace: pageWidth >= width and pageWidth / FULLBLEED_RATIO >= height.
FillCoversWorkspace ==
  (zoomSetting = "FILL" /\ PositiveSize) =>
    /\ state.pageWidth.n >= W
    /\ state.pageWidth.n * FULLBLEED_RATIO.d >= H * FULLBLEED_RATIO.n

\* C5 amended: in mode FILL with a positive workspace size the provisional
\* maxPageWidth covers the workspace (maxPageWidth >= width and
\* maxPageWidth / FULLBLEED_RATIO >= height), and pageWidth is maxPageWidth
\* rounded down to a multiple of 12, so it falls short of covering by less
\* than 12 pixels of width.
FillCoversUpToSnap ==
  (zoomSetting = "FILL" /\ PositiveSize) =>
    /\ maxPageWidth.t = "num"
    /\ maxPageWidth.n >= W * maxPageWidth.d
    /\ maxPageWidth.n * FULLBLEED_RATIO.d >= H * FULLBLEED_RATIO.n * maxPageWidth.d
    /\ IsInteger(state.pageWidth)
    /\ state.pageWidth.n * maxPageWidth.d <= maxPageWidth.n
    /\ (state.pageWidth.n + 12) * maxPageWidth.d > maxPageWidth.n
    /\ state.pageWidth.n + 12 > W
    /\ (state.pageWidth.n + 12) * FULLBLEED_RATIO.d > H * FULLBLEED_RATIO.n

FillCoversUpToSnapWitness ==
  /\ zoomSetting = "FILL" /\ PositiveSize
  /\ state.pageWidth.n > 0
  /\ state.pageWidth.n < W
  /\ state.pageWidth # maxPageWidth

\* the comparison workspaceRatio > FULLBLEED_RATIO, on integers
WiderThanFullbleed ==
  IF H = 0 THEN W > 0 ELSE W * FULLBLEED_RATIO.d > H * FULLBLEED_RATIO.n

\* C6: the provisional maxPageWidth of FILL and FIT is chosen by the strict
\* comparison workspaceRatio > FULLBLEED_RATIO: when it holds FILL takes the
\* width and FIT takes height * FULLBLEED_RATIO; otherwise, equality of the
\* ratios included, FILL takes height * FULLBLEED_RATIO and FIT the width.
MaxPageWidthBranches ==
  /\ zoomSetting = "FILL" =>
       maxPageWidth = IF WiderThanFullbleed
                      THEN workspaceSize.width
                      ELSE Rat(H * FULLBLEED_RATIO.n, FULLBLEED_RATIO.d)
  /\ zoomSetting = "FIT" =>
       maxPageWidth = IF WiderThanFullbleed
                      THEN Rat(H * FULLBLEED_RATIO.n, FULLBLEED_RATIO.d)
                      ELSE workspaceSize.width

MaxPageWidthBranchesWitness ==
  /\ zoomSetting = "FIT" /\ PositiveSize
  /\ workspaceRatio = FULLBLEED_RATIO
  /\ maxPageWidth = workspaceSize.width

\* C7: for every recognized zoom mode pageHeight = pageWidth / PAGE_RATIO
\* exactly; FIT on a 1200x900 workspace gives pageWidth 720, pageHeight 960.
PageHeightFromRatio ==
  /\ zoomSetting \in RecognizedZoom =>
       /\ state.pageHeight.t = "num"
       /\ state.pageHeight.n * PAGE_RATIO.n
            = state.pageWidth.n * PAGE_RATIO.d * state.pageHeight.d
  /\ (zoomSetting = "FIT" /\ workspaceSize = [width |-> Num(1200), height |-> Num(900)]) =>
       state.pageWidth = Num(720) /\ state.pageHeight = Num(960)

PageHeightFromRatioWitness ==
  /\ zoomSetting = "FIT"
  /\ workspaceSize = [width |-> Num(1200), height |-> Num(900)]
  /\ state.pageHeight = Num(960)

\* C8: the flags come from the snapped pageWidth by strict comparisons:
\* hasHorizontalOverflow iff pageWidth > width, hasVerticalOverflow iff
\* pageWidth / FULLBLEED_RATIO > height, hasPageNavigation iff
\* pageWidth < width - 2 * PAGE_NAV_WIDTH.
FlagsFromPageWidth ==
  zoomSetting \in RecognizedZoom =>
    /\ state.hasHorizontalOverflow <=> state.pageWidth.n > W
    /\ state.hasVerticalOverflow <=>
         state.pageWidth.n * FULLBLEED_RATIO.d > H * FULLBLEED_RATIO.n
    /\ state.hasPageNavigation <=> state.pageWidth.n < W - 2 * PAGE_NAV_WIDTH

FlagsFromPageWidthWitness ==
  /\ zoomSetting \in RecognizedZoom /\ PositiveSize
  /\ PAGE_NAV_WIDTH > 0
  /\ state.pageWidth.n = W - 2 * PAGE_NAV_WIDTH
  /\ ~state.hasPageNavigation
  /\ ~state.hasHorizontalOverflow

ScenarioB == zoomSetting = "FILL" /\ workspaceSize = [width |-> Num(400), height |-> Num(1000)]

\* C9 as stated: FILL on a 400x1000 workspace gives maxPageWidth 800,
\* pageWidth 800 and hasHorizontalOverflow.
ScenarioBAsStated ==
  ScenarioB =>
    /\ maxPageWidth = Num(800)
    /\ state.pageWidth = Num(800)
    /\ state.hasHorizontalOverflow

\* C9 amended: FILL on a 400x1000 workspace gives maxPageWidth 800,
\* pageWidth 792 (800 rounded down to a multiple of 12) and
\* hasHorizontalOverflow.
ScenarioBSnapped ==
  ScenarioB =>
    /\ maxPageWidth = Num(800)
    /\ state.pageWidth = Num(792)
    /\ state.hasHorizontalOverflow

ScenarioBSnappedWitness == ScenarioB /\ state.pageWidth = Num(792)

\* C10 as stated: with width and height zero or null in mode FIT the division
\* yields a non-finite value that propagates into pageWidth.
UnsizedFitNonFinite ==
  (zoomSetting = "FIT" /\ Unsized) => state.pageWidth.t \in {"nan", "inf"}

\* C10 amended: with width and height zero or null in mode FIT the division
\* yields NaN for workspaceRatio only; the comparison with it is false, so
\* maxPageWidth is the workspace width (0 or null) and pageWidth is 0.
UnsizedFitZero ==
  (zoomSetting = "FIT" /\ Unsized) =>
    /\ workspaceRatio = NaN
    /\ maxPageWidth = workspaceSize.width
    /\ state.pageWidth = Num(0)

UnsizedFitZeroWitness ==
  /\ zoomSetting = "FIT"
  /\ workspaceSize = [width |-> Num(0), height |-> Num(0)]
  /\ workspaceRatio = NaN
  /\ state.pageWidth = Num(0)

\* C11: for a zoom mode outside FILL, FIT, SINGLE, DOUBLE, TRIPLE the
\* calculation still returns a result: maxPageWidth stays undefined, pageWidth
\* and pageHeight are NaN, the three flags are false, and the zoom mode and
\* the workspace size are echoed unchanged.
UnrecognizedZoomDegenerate ==
  zoomSetting \notin RecognizedZoom =>
    /\ maxPageWidth = Undefined
    /\ state.pageWidth = NaN
    /\ state.pageHeight = NaN
    /\ ~state.hasHorizontalOverflow
    /\ ~state.hasVerticalOverflow
    /\ ~state.hasPageNavigation
    /\ state.zoomSetting = zoomSetting
    /\ state.workspaceWidth = workspaceSize.width
    /\ state.workspaceHeight = workspaceSize.height

UnrecognizedZoomDegenerateWitness ==
  /\ zoomSetting = "OTHER"
  /\ workspaceSize = [width |-> Num(1200), height |-> Num(900)]
  /\ maxPageWidth = Undefined
  /\ state.pageWidth = NaN
  /\ state.workspaceWidth = Num(1200)

\* C13: page navigation and horizontal overflow exclude each other: in every
\* state reached by setZoomSetting and setWorkspaceSize calls, with
\* PAGE_NAV_WIDTH >= 0, hasPageNavigation and hasHorizontalOverflow are never
\* both true.
NavigationExcludesOverflow ==
  PAGE_NAV_WIDTH >= 0 =>
    ~(state.hasPageNavigation /\ state.hasHorizontalOverflow)

NavigationExcludesOverflowWitness ==
  /\ PAGE_NAV_WIDTH > 0
  /\ zoomSetting = "FILL" /\ PositiveSize
  /\ state.pageWidth.n > W
  /\ state.hasHorizontalOverflow
  /\ ~state.hasPageNavigation

\* the ops of a sequence of effects
EffectOps(effs) == {effs[i].op : i \in 1..Len(effs)}

\* C12: selecting a menu item first calls onMenuItemClick (when provided) with
\* the event and the item and then closes the menu (isOpen false, focus back
\* on the select button), unless isKeepMenuOpenOnSelection, which leaves
\* isOpen unchanged; a click on the select button toggles isOpen; dismissing
\* the menu always sets isOpen to false.
DropDownOpenClose ==
  [][ /\ lastCall'.handler = "handleMenuItemClick" =>
           /\ onMenuItemClick = "function" =>
                /\ Len(effects') >= 1
                /\ effects'[1] = Effect("onMenuItemClick", lastCall'.event, lastCall'.item)
                /\ \A i \in 2..Len(effects') : effects'[i].op # "onMenuItemClick"
           /\ onMenuItemClick # "function" => "onMenuItemClick" \notin EffectOps(effects')
           /\ isKeepMenuOpenOnSelection =>
                /\ isOpen' = isOpen
                /\ focus' = focus
                /\ EffectOps(effects') \subseteq {"onMenuItemClick"}
           /\ ~isKeepMenuOpenOnSelection =>
                /\ isOpen' = FALSE
                /\ focus' = "select"
                /\ Len(effects') >= 2
                /\ effects'[Len(effects') - 1].op = "isOpen.set(false)"
                /\ effects'[Len(effects')].op = "selectRef.current.focus"
      /\ lastCall'.handler = "handleSelectClick" => isOpen' = ~isOpen
      /\ lastCall'.handler = "handleDismissMenu" => isOpen' = FALSE /\ focus' = "select"
    ]_vars

DropDownOpenCloseWitness ==
  /\ lastCall.handler = "handleMenuItemClick"
  /\ onMenuItemClick = "function"
  /\ ~isKeepMenuOpenOnSelection
  /\ effects = <<Effect("onMenuItemClick", lastCall.event, lastCall.item)>>
                 \o HandleDismissMenuEffects
  /\ ~isOpen
  /\ focus = "select"

====
